---------------------------- MODULE Spec2Model ----------------------------
(***************************************************************************)
(* The multi-commodity-flow solver of src/linkgraph/mcf.cpp as a state     *)
(* machine: MCF1stPass, the mapping of paths to flow shares, MCF2ndPass.   *)
(* One state per step of the drivers: the set-up of a Dijkstra run, one    *)
(* iteration of its while loop, one destination of the push loop, one      *)
(* CleanupPaths, one evaluation of the loop condition of a pass.           *)
(*                                                                         *)
(* mcf.cpp is translated line by line.  Path, Edge and the job's settings  *)
(* (linkgraphjob.h) and the flow mapper are not part of the sources at     *)
(* hand; they are modelled from the specification's sections 3, 4.1, 4.3   *)
(* and 6.                                                                  *)
(***************************************************************************)
EXTENDS Integers, Sequences, FiniteSets, TLC

\* ------------------------------------------------------------------ bounds
MaxCapacity == 2
MaxDemand == 3

\* --------------------------------------------------------------- constants
\* UINT_MAX, INT_MAX and INT_MIN are only ever compared, copied and passed to
\* min(); no arithmetic is done on them (every sum is guarded by a test for the
\* sentinel).  TLC's integers are 32 bits wide and signed, so
\* UINT_MAX is represented by the largest of them.
UINT_MAX == 2147483647
INT_MAX == 2147483647
INT_MIN == -INT_MAX - 1
INVALID_NODE == -1
PATH_CAP_MULTIPLIER == 16

Min(a, b) == IF a < b THEN a ELSE b
Max(a, b) == IF a > b THEN a ELSE b
Clamp(a, lo, hi) == IF a <= lo THEN lo ELSE IF a >= hi THEN hi ELSE a
\* C++ integer division truncates towards zero.
TruncDiv(a, b) == IF a >= 0 THEN a \div b ELSE -((-a) \div b)

RECURSIVE SumOver(_, _)
SumOver(S, f) ==
    IF S = {} THEN 0
    ELSE LET x == CHOOSE y \in S : TRUE IN f[x] + SumOver(S \ {x}, f)

RECURSIVE Ascending(_)
Ascending(S) ==
    IF S = {} THEN <<>>
    ELSE LET x == CHOOSE y \in S : \A z \in S : y <= z
         IN <<x>> \o Ascending(S \ {x})

\* -------------------------------------------------------------------- jobs
\* The link graphs of the scenarios of the specification's section 8, and further
\* ones.  links: <<from, to, distance>>; narrow: the links whose capacity is
\* chosen apart from that of the others; pairs: the origin-destination pairs
\* that may carry demand.
TwoNode ==
    [size |-> 2, links |-> {<<0, 1, 10>>}, narrow |-> {},
     pairs |-> {<<0, 1>>}]
Triangle ==
    [size |-> 3, links |-> {<<0, 1, 1>>, <<1, 2, 1>>, <<0, 2, 5>>},
     narrow |-> {<<1, 2>>},
     pairs |-> {<<0, 2>>, <<0, 1>>, <<1, 2>>}]
Detour ==
    [size |-> 3,
     links |-> {<<0, 1, 1>>, <<1, 2, 1>>, <<0, 2, 5>>, <<2, 1, 1>>},
     narrow |-> {<<0, 1>>},
     pairs |-> {<<0, 1>>, <<0, 2>>, <<2, 1>>}]
Unreachable ==
    [size |-> 3, links |-> {<<0, 1, 1>>, <<2, 1, 1>>},
     narrow |-> {<<2, 1>>},
     pairs |-> {<<0, 2>>, <<0, 1>>, <<2, 1>>}]
Diamond ==
    [size |-> 4,
     links |-> {<<0, 1, 1>>, <<0, 2, 1>>, <<1, 3, 1>>, <<2, 3, 1>>},
     narrow |-> {<<1, 3>>},
     pairs |-> {<<0, 3>>, <<0, 2>>}]
SkewDiamond ==
    [size |-> 4,
     links |-> {<<0, 1, 2>>, <<0, 2, 1>>, <<1, 3, 1>>, <<2, 3, 2>>},
     narrow |-> {<<2, 3>>},
     pairs |-> {<<0, 3>>, <<0, 1>>}]
Bypass ==
    [size |-> 4,
     links |-> {<<0, 1, 1>>, <<0, 2, 2>>, <<2, 1, 1>>, <<1, 3, 1>>},
     narrow |-> {<<0, 1>>},
     pairs |-> {<<0, 3>>, <<0, 1>>}]
Graphs == {TwoNode, Triangle, Detour, Unreachable, Diamond, SkewDiamond, Bypass}

\* accuracy and short_path_saturation of the job's settings.
Settings ==
    {[accuracy |-> 1, short_path_saturation |-> 100],
     [accuracy |-> 3, short_path_saturation |-> 50]}

Nodes(j) == 0 .. (j.size - 1)

MakeJob(g, c, cn, dm, s) ==
    [size |-> g.size,
     distance |-> [u \in 0 .. (g.size - 1) |-> [v \in 0 .. (g.size - 1) |->
         IF \E l \in g.links : l[1] = u /\ l[2] = v
         THEN (CHOOSE l \in g.links : l[1] = u /\ l[2] = v)[3]
         ELSE UINT_MAX]],
     capacity |-> [u \in 0 .. (g.size - 1) |-> [v \in 0 .. (g.size - 1) |->
         IF <<u, v>> \in g.narrow THEN cn
         ELSE IF \E l \in g.links : l[1] = u /\ l[2] = v THEN c ELSE 0]],
     demand |-> [u \in 0 .. (g.size - 1) |-> [v \in 0 .. (g.size - 1) |->
         IF <<u, v>> \in g.pairs THEN dm[<<u, v>>] ELSE 0]],
     accuracy |-> s.accuracy,
     short_path_saturation |-> s.short_path_saturation]

JobsOn(g) ==
    {MakeJob(g, c, cn, dm, s) :
        c \in 0 .. MaxCapacity, cn \in 0 .. MaxCapacity,
        dm \in [g.pairs -> 0 .. MaxDemand], s \in Settings}
Jobs == UNION {JobsOn(g) : g \in Graphs}

\* ------------------------------------------------------------------- paths
\* Path::Path(n, source): a root starts at distance 0 with unbounded capacity,
\* every other path disconnected.  stamp is a history field: the step of the
\* Dijkstra run at which the path was last forked (0: never).
NewPath(n, source) ==
    [node |-> n,
     origin |-> IF source THEN n ELSE INVALID_NODE,
     parent |-> INVALID_NODE,
     distance |-> IF source THEN 0 ELSE UINT_MAX,
     capacity |-> IF source THEN UINT_MAX ELSE 0,
     free_capacity |-> IF source THEN INT_MAX ELSE INT_MIN,
     flow |-> 0,
     num_children |-> 0,
     stamp |-> 0]

\* Path::Detach on paths[n]: the parent loses a child, n loses its parent.
Detach(ps, n) ==
    LET q == ps[n].parent IN
    IF q = INVALID_NODE THEN ps
    ELSE [ps EXCEPT ![q].num_children = @ - 1, ![n].parent = INVALID_NODE]

\* Path::Fork on paths[n]: re-parent onto paths[base] over an edge of the
\* given capacity, free capacity and distance.  The former parent stays in the
\* path vector (Dijkstra still holds it in paths and may read it again).
Fork(ps, n, base, cap, free_cap, dist, now) ==
    LET d == IF ps[n].parent = base THEN ps ELSE Detach(ps, n)
        linked == IF ps[n].parent = base THEN d
                  ELSE [d EXCEPT ![base].num_children = @ + 1]
    IN [linked EXCEPT
          ![n].parent = base,
          ![n].capacity = Min(ps[base].capacity, cap),
          ![n].free_capacity = Min(ps[base].free_capacity, free_cap),
          ![n].distance = ps[base].distance + dist,
          ![n].origin = ps[base].origin,
          ![n].stamp = now]

\* Path::GetCapacityRatio(free, total): free capacity in sixteenths of the
\* total; plus or minus infinity for a total of 0.  The free capacity is
\* clamped so that the product stays inside the integer width.
PATH_CAP_MAX_FREE == (INT_MAX - 1) \div PATH_CAP_MULTIPLIER
CapacityRatio(free, total) ==
    IF total = 0 THEN (IF free > 0 THEN INT_MAX ELSE INT_MIN)
    ELSE TruncDiv(Clamp(free, -PATH_CAP_MAX_FREE, PATH_CAP_MAX_FREE)
                    * PATH_CAP_MULTIPLIER, total)
GetCapacityRatio(p) == CapacityRatio(p.free_capacity, p.capacity)

\* ------------------------------------------------------------- annotations
\* DistanceAnnotation::IsBetter(base, cap, free_cap, dist) on this.
DistanceIsBetter(this, base, cap, free_cap, dist) ==
    IF base.distance = UINT_MAX THEN FALSE
    ELSE IF this.distance = UINT_MAX THEN TRUE
    ELSE IF free_cap > 0 /\ base.free_capacity > 0
         THEN (IF this.free_capacity > 0
               THEN base.distance + dist < this.distance ELSE TRUE)
         ELSE (IF this.free_capacity > 0
               THEN FALSE ELSE base.distance + dist < this.distance)

\* CapacityAnnotation::IsBetter(base, cap, free_cap, dist) on this.
CapacityIsBetter(this, base, cap, free_cap, dist) ==
    LET min_cap == CapacityRatio(Min(base.free_capacity, free_cap),
                                 Min(base.capacity, cap))
        this_cap == GetCapacityRatio(this)
    IN IF min_cap = this_cap
       THEN (IF base.distance = UINT_MAX THEN FALSE
             ELSE base.distance + dist < this.distance)
       ELSE min_cap > this_cap

\* Greater<T>(x_anno, y_anno, x, y).
Greater(x_anno, y_anno, x, y) ==
    IF x_anno > y_anno THEN TRUE
    ELSE IF x_anno < y_anno THEN FALSE
    ELSE x > y

\* CapacityAnnotation::Comparator: x sorts before y.
CapacityComparator(x, y) ==
    x.node # y.node
    /\ Greater(GetCapacityRatio(x), GetCapacityRatio(y), x.node, y.node)

\* A comparator that breaks ties of the distance by the larger NodeID.
DistanceComparatorLargerFirst(x, y) ==
    x.node # y.node
    /\ (x.distance < y.distance \/ (x.distance = y.distance /\ x.node > y.node))

\* DistanceAnnotation::Comparator: x sorts before y.
DistanceComparator(x, y) ==
    x.node # y.node /\ ~Greater(x.distance, y.distance, x.node, y.node)

\* ------------------------------------------------------------------- state
VARIABLES
    job,             \* the LinkGraphJob: size, distances, capacities, demands, settings
    flow,            \* flow[u][v]: Edge::Flow() of job[u][v]
    unsatisfied,     \* unsatisfied[s][d]: Edge::UnsatisfiedDemand() of job[s][d]
    pathlist,        \* pathlist[u]: job[u].Paths(), the fragments that leave u
    shares,          \* shares[u][o][v]: job[u].Flows(), weight of next hop v for origin o
    pass,            \* 1: MCF1stPass, 2: MCF2ndPass
    pc,              \* position in the running pass
    max_saturation,  \* MultiCommodityFlow::max_saturation
    source_node,     \* the loop variable source of the running sweep
    dest_node,       \* the loop variable dest of the push loop
    paths,           \* the PathVector of the running Dijkstra
    annos,           \* the AnnoSet of the running Dijkstra (nodes of its paths)
    clock,           \* history: iterations of the running Dijkstra's while loop
    more_loops,      \* MCF1stPass: more_loops
    demand_left,     \* MCF2ndPass: demand_left
    hist             \* history of the run, read by the properties only

vars == <<job, flow, unsatisfied, pathlist, shares, pass, pc, max_saturation,
          source_node, dest_node, paths, annos, clock, more_loops, demand_left,
          hist>>

\* Sum of unsatisfied_demand over all origin-destination pairs.
TotalUnsatisfied(j, un) ==
    SumOver(Nodes(j) \X Nodes(j), [p \in Nodes(j) \X Nodes(j) |-> un[p[1]][p[2]]])

\* ---------------------------------------------------------- edge iterators
\* GraphEdgeIterator: every outgoing edge of node.
GraphEdges(j, source, node) ==
    {to \in Nodes(j) : to # node /\ j.distance[node][to] < UINT_MAX}

\* FlowEdgeIterator: the next hops of node's flow shares for source; the
\* share of node itself is the sign of consumption at node.
FlowEdges(j, sh, source, node) ==
    {to \in Nodes(j) : sh[node][source][to] > 0}

\* ---------------------------------------------------------------- Dijkstra
\* Lines 261-266: the capacity of an edge as the search sees it.
EffectiveCapacity(capacity, max_sat) ==
    IF max_sat # UINT_MAX
    THEN LET scaled == (capacity * max_sat) \div 100
         IN IF scaled = 0 THEN 1 ELSE scaled
    ELSE capacity

IsBetter(p, this, base, cap, free_cap, dist) ==
    IF p = 1 THEN DistanceIsBetter(this, base, cap, free_cap, dist)
    ELSE CapacityIsBetter(this, base, cap, free_cap, dist)

Comparator(p, x, y) ==
    IF p = 1 THEN DistanceComparator(x, y) ELSE CapacityComparator(x, y)

\* annos.begin(): the path that sorts before every other one of the set.
Begin(p, ps, an) ==
    CHOOSE n \in an : \A m \in an \ {n} : Comparator(p, ps[n], ps[m])

\* A relaxation that takes the capacity of the edge for its free capacity.
RelaxIgnoringFlow(d, p, j, fl, max_sat, from, to, now) ==
    IF to = from THEN d
    ELSE LET capacity == EffectiveCapacity(j.capacity[from][to], max_sat)
             distance == j.distance[from][to] + 1
         IN IF IsBetter(p, d.paths[to], d.paths[from], capacity, capacity, distance)
            THEN [paths |-> Fork(d.paths, to, from, capacity, capacity, distance, now),
                  annos |-> d.annos \cup {to}]
            ELSE d

\* Lines 258-274, one edge from -> to of the inner loop.  d: [paths, annos].
Relax(d, p, j, fl, max_sat, from, to, now) ==
    IF to = from THEN d
    ELSE LET capacity == EffectiveCapacity(j.capacity[from][to], max_sat)
             distance == j.distance[from][to] + 1
             free == capacity - fl[from][to]
         IN IF IsBetter(p, d.paths[to], d.paths[from], capacity, free, distance)
            THEN [paths |-> Fork(d.paths, to, from, capacity, free, distance, now),
                  annos |-> d.annos \cup {to}]
            ELSE d

RECURSIVE RelaxAll(_, _, _, _, _, _, _, _)
RelaxAll(d, p, j, fl, max_sat, from, tos, now) ==
    IF tos = <<>> THEN d
    ELSE RelaxAll(Relax(d, p, j, fl, max_sat, from, Head(tos), now),
                  p, j, fl, max_sat, from, Tail(tos), now)

\* Lines 242-250: one path per node, all of them in the set.
DijkstraInit ==
    /\ pc = "dijkstra_init"
    /\ paths' = [n \in Nodes(job) |-> NewPath(n, n = source_node)]
    /\ annos' = Nodes(job)
    /\ clock' = 0
    /\ pc' = "dijkstra"
    /\ UNCHANGED <<job, flow, unsatisfied, pathlist, shares, pass,
                   max_saturation, source_node, dest_node, more_loops,
                   demand_left, hist>>

\* Lines 251-276: one iteration of the while loop; the push loop follows
\* when the set is empty.
DijkstraStep ==
    /\ pc = "dijkstra"
    /\ annos # {}
    /\ LET from == Begin(pass, paths, annos)
           tos == IF pass = 1 THEN GraphEdges(job, source_node, from)
                  ELSE FlowEdges(job, shares, source_node, from)
           d == RelaxAll([paths |-> paths, annos |-> annos \ {from}], pass, job,
                         flow, max_saturation, from, Ascending(tos), clock + 1)
       IN /\ paths' = d.paths
          /\ annos' = d.annos
          /\ pc' = IF d.annos = {} THEN "push" ELSE "dijkstra"
    /\ clock' = clock + 1
    /\ dest_node' = 0
    /\ UNCHANGED <<job, flow, unsatisfied, pathlist, shares, pass,
                   max_saturation, source_node, more_loops, demand_left, hist>>

\* --------------------------------------------------------- flow assignment
\* The nodes of the path that ends at n, from n up to the child of the root.
RECURSIVE PathChain(_, _)
PathChain(ps, n) ==
    IF ps[n].parent = INVALID_NODE THEN <<>>
    ELSE <<n>> \o PathChain(ps, ps[n].parent)

\* saturation_cap(e) of Path::AddFlow.
SaturationCap(j, u, v, max_sat) ==
    IF max_sat = UINT_MAX THEN j.capacity[u][v]
    ELSE Max(1, (j.capacity[u][v] * max_sat) \div 100)

RECURSIVE MinResidual(_, _, _, _, _, _)
MinResidual(ps, fl, j, chain, max_sat, acc) ==
    IF chain = <<>> THEN acc
    ELSE LET n == Head(chain)
             u == ps[n].parent
             residual == SaturationCap(j, u, n, max_sat) - fl[u][n]
         IN MinResidual(ps, fl, j, Tail(chain), max_sat,
                        Min(acc, Max(0, residual)))

\* Path::AddFlow(want, job, max_saturation) on paths[n]: the flow that fits
\* on every edge of the path (any flow when max_saturation is UINT_MAX) is
\* added to the edges and to the paths up to the root.
AddFlow(ps, fl, j, n, want, max_sat) ==
    LET chain == PathChain(ps, n)
        on == {chain[i] : i \in DOMAIN chain}
        f == IF max_sat = UINT_MAX THEN want
             ELSE MinResidual(ps, fl, j, chain, max_sat, want)
    IN [pushed |-> f,
        paths |-> [m \in DOMAIN ps |->
                     IF m \in on THEN [ps[m] EXCEPT !.flow = @ + f] ELSE ps[m]],
        flow |-> [u \in DOMAIN fl |-> [v \in DOMAIN fl[u] |->
                     IF v \in on /\ ps[v].parent = u THEN fl[u][v] + f
                     ELSE fl[u][v]]]]

\* A push that does not tell the demand edge (no SatisfyDemand).
PushFlowKeepingDemand(ps, fl, un, j, s, d, max_sat) ==
    LET want == Clamp(j.demand[s][d] \div j.accuracy, 1, un[s][d])
        a == AddFlow(ps, fl, j, d, want, max_sat)
    IN [pushed |-> a.pushed, paths |-> a.paths, flow |-> a.flow,
        unsatisfied |-> un]

\* A push that never applies the saturation cap.
PushFlowUncapped(ps, fl, un, j, s, d, max_sat) ==
    LET want == Clamp(j.demand[s][d] \div j.accuracy, 1, un[s][d])
        a == AddFlow(ps, fl, j, d, want, UINT_MAX)
    IN [pushed |-> a.pushed, paths |-> a.paths, flow |-> a.flow,
        unsatisfied |-> [un EXCEPT ![s][d] = @ - a.pushed]]

\* MultiCommodityFlow::PushFlow(edge, path, accuracy, max_saturation) for the
\* demand edge s -> d and the path paths[d].
PushFlow(ps, fl, un, j, s, d, max_sat) ==
    LET want == Clamp(j.demand[s][d] \div j.accuracy, 1, un[s][d])
        a == AddFlow(ps, fl, j, d, want, max_sat)
    IN [pushed |-> a.pushed,
        paths |-> a.paths,
        flow |-> a.flow,
        unsatisfied |-> [un EXCEPT ![s][d] = @ - a.pushed]]

\* The edges of the path that ends at n.
PathEdges(ps, n) ==
    LET chain == PathChain(ps, n)
    IN {<<ps[chain[i]].parent, chain[i]>> : i \in DOMAIN chain}

\* Line 472, first operand: the path may take flow under the saturation cap.
HasFreeCapacity(path) == path.free_capacity > 0

\* An exception that does not ask whether the path is connected.
AllowsOverloadUnconnected(un, j, s, d, path) ==
    un[s][d] = j.demand[s][d]

\* Lines 477-478: nothing assigned to this pair yet and the path is connected.
AllowsOverload(un, j, s, d, path) ==
    un[s][d] = j.demand[s][d] /\ path.free_capacity > INT_MIN

\* A second pass that only takes paths with free capacity.
Pass2EligibleWithFreeCapacity(un, s, d, path) ==
    un[s][d] > 0 /\ path.free_capacity > 0

\* Line 507: demand is left and the path is connected.
Pass2Eligible(un, s, d, path) ==
    un[s][d] > 0 /\ path.free_capacity > INT_MIN

NextDest ==
    /\ dest_node' = dest_node + 1
    /\ pc' = IF dest_node + 1 = job.size THEN "cleanup" ELSE "push"

\* Lines 464-482, one destination of MCF1stPass's push loop.
Pass1Push ==
    /\ pc = "push"
    /\ pass = 1
    /\ LET s == source_node
           d == dest_node
           path == paths[d]
           capped == PushFlow(paths, flow, unsatisfied, job, s, d, max_saturation)
           free == PushFlow(paths, flow, unsatisfied, job, s, d, UINT_MAX)
       IN IF unsatisfied[s][d] > 0
          THEN IF HasFreeCapacity(path) /\ capped.pushed > 0
               THEN /\ paths' = capped.paths
                    /\ flow' = capped.flow
                    /\ unsatisfied' = capped.unsatisfied
                    /\ more_loops' = (more_loops \/ capped.unsatisfied[s][d] > 0)
                    /\ hist' = [hist EXCEPT !.pushed = @ \cup {<<s, d>>}]
               ELSE IF AllowsOverload(unsatisfied, job, s, d, path)
               THEN /\ paths' = free.paths
                    /\ flow' = free.flow
                    /\ unsatisfied' = free.unsatisfied
                    /\ more_loops' = more_loops
                    /\ hist' = [hist EXCEPT
                          !.pushed = @ \cup {<<s, d>>},
                          !.overloaded = @ \cup {<<s, d>>},
                          !.overloaded_twice = @ \/ <<s, d>> \in hist.overloaded,
                          !.overload_edges = @ \cup PathEdges(paths, d)]
               ELSE /\ hist' = IF HasFreeCapacity(path)
                               THEN [hist EXCEPT !.pushed = @ \cup {<<s, d>>}]
                               ELSE hist
                    /\ UNCHANGED <<paths, flow, unsatisfied, more_loops>>
          ELSE UNCHANGED <<paths, flow, unsatisfied, more_loops, hist>>
    /\ NextDest
    /\ UNCHANGED <<job, pathlist, shares, pass, max_saturation, source_node,
                   annos, clock, demand_left>>

\* Lines 504-511, one destination of MCF2ndPass's push loop.
Pass2Push ==
    /\ pc = "push"
    /\ pass = 2
    /\ LET s == source_node
           d == dest_node
           path == paths[d]
           free == PushFlow(paths, flow, unsatisfied, job, s, d, UINT_MAX)
       IN IF Pass2Eligible(unsatisfied, s, d, path)
          THEN /\ paths' = free.paths
               /\ flow' = free.flow
               /\ unsatisfied' = free.unsatisfied
               /\ demand_left' = (demand_left \/ free.unsatisfied[s][d] > 0)
               /\ hist' = [hist EXCEPT !.pushed = @ \cup {<<s, d>>},
                                       !.pushed2 = @ \cup {<<s, d>>}]
          ELSE UNCHANGED <<paths, flow, unsatisfied, demand_left, hist>>
    /\ NextDest
    /\ UNCHANGED <<job, pathlist, shares, pass, max_saturation, source_node,
                   annos, clock, more_loops>>

\* ----------------------------------------------------------------- cleanup
\* Lines 292-300: from path n towards the root, detach every path without
\* flow and delete it when it has no child left.
\* c: [paths, gone (nodes whose slot is NULL), deleted (the deleted paths)].
RECURSIVE CleanupWalk(_, _, _)
CleanupWalk(c, n, source_id) ==
    IF n = source_id \/ n = INVALID_NODE THEN c
    ELSE IF c.paths[n].flow # 0 THEN c
    ELSE LET parent == c.paths[n].parent
             d == Detach(c.paths, n)
             c1 == IF d[n].num_children = 0
                   THEN [paths |-> d, gone |-> c.gone \cup {n},
                         deleted |-> c.deleted \cup {d[n]}]
                   ELSE [c EXCEPT !.paths = d]
         IN CleanupWalk(c1, parent, source_id)

\* Lines 288-301, the loop over the path vector from slot i on.
RECURSIVE CleanupLoop(_, _, _, _)
CleanupLoop(c, i, size, source_id) ==
    IF i = size THEN c
    ELSE IF i \in c.gone THEN CleanupLoop(c, i + 1, size, source_id)
    ELSE LET c1 == IF c.paths[i].parent = source_id
                   THEN [c EXCEPT !.paths = Detach(c.paths, i)] ELSE c
         IN CleanupLoop(CleanupWalk(c1, i, source_id), i + 1, size, source_id)

\* MultiCommodityFlow::CleanupPaths(source_id, paths); the root goes last.
CleanupResult(ps, size, source_id) ==
    LET c == CleanupLoop([paths |-> ps, gone |-> {source_id}, deleted |-> {}],
                         0, size, source_id)
    IN [c EXCEPT !.deleted = @ \cup {c.paths[source_id]}]

\* The paths that outlive the run stay in the path list of the node they
\* leave (the node of their parent), newest first.
Fragment(ps, n) == [origin |-> ps[n].origin, node |-> n, flow |-> ps[n].flow]

RECURSIVE KeepPaths(_, _, _, _)
KeepPaths(pl, ps, gone, ns) ==
    IF ns = <<>> THEN pl
    ELSE LET n == Head(ns)
             u == ps[n].parent
         IN IF n \in gone \/ u = INVALID_NODE
            THEN KeepPaths(pl, ps, gone, Tail(ns))
            ELSE KeepPaths([pl EXCEPT ![u] = <<Fragment(ps, n)>> \o @],
                           ps, gone, Tail(ns))

\* Line 483 resp. 512, and the step of the loop over the sources.
CleanupPaths ==
    /\ pc = "cleanup"
    /\ LET c == CleanupResult(paths, job.size, source_node)
       IN /\ pathlist' = KeepPaths(pathlist, paths, c.gone,
                                   Ascending(Nodes(job)))
          /\ hist' = [hist EXCEPT !.deleted = c.deleted]
    /\ paths' = <<>>
    /\ annos' = {}
    /\ source_node' = source_node + 1
    /\ pc' = IF source_node + 1 < job.size THEN "dijkstra_init"
             ELSE IF pass = 1 THEN "loop1" ELSE "loop2"
    /\ UNCHANGED <<job, flow, unsatisfied, shares, pass, max_saturation,
                   dest_node, clock, more_loops, demand_left>>

\* ------------------------------------------------------- cycle elimination
\* A slot of EliminateCycles' path vector: NULL, invalid_path, or the index
\* (from 1) of a fragment in the path list of the slot's node.
NULL == 0
invalid_path == -1

\* The nodes of the cycle that starts with the fragment in slot `first` and
\* follows the slots of the fragments' nodes back to it.
RECURSIVE CycleFrom(_, _, _)
CycleFrom(st, at, first) ==
    LET next == st.lists[at][st.path[at]].node
    IN IF next = first THEN <<at>> ELSE <<at>> \o CycleFrom(st, next, first)

\* Flow of the fragments of path list pl[u] that lead to v, of all origins.
ListFlow(pl, u, v) ==
    SumOver(DOMAIN pl[u],
            [i \in DOMAIN pl[u] |-> IF pl[u][i].node = v THEN pl[u][i].flow ELSE 0])

\* History: every edge carries the flow of the fragments that take it.
ListsMatchFlow(pl, fl) ==
    \A u \in DOMAIN fl : \A v \in DOMAIN fl : fl[u][v] = ListFlow(pl, u, v)

\* A search that never finds flow on a cycle.
FindCycleFlowNone(st, begin) == 0

\* MCF1stPass::FindCycleFlow(path, cycle_begin), cycle_begin = path[begin].
FindCycleFlow(st, begin) ==
    LET cycle == CycleFrom(st, begin, begin)
        RECURSIVE Least(_, _)
        Least(ns, acc) ==
            IF ns = <<>> THEN acc
            ELSE Least(Tail(ns),
                       Min(acc, st.lists[Head(ns)][st.path[Head(ns)]].flow))
    IN Least(cycle, UINT_MAX)

\* An iteration that takes the flow off the fragment and leaves the edge.
EliminateStepKeepingEdge(st, at, f) ==
    [st EXCEPT !.lists[at][st.path[at]].flow = @ - f,
               !.ok = @ /\ st.lists[at][st.path[at]].flow >= f]

\* Lines 352-356, one iteration: the fragment in slot `at` loses f, and so
\* does the edge from that fragment's node to the node of the next fragment.
\* ok is a history field: no subtraction so far took more than there was.
EliminateStep(st, at, f) ==
    LET prev == st.lists[at][st.path[at]].node
        to == st.lists[prev][st.path[prev]].node
    IN [st EXCEPT !.lists[at][st.path[at]].flow = @ - f,
                  !.flow[prev][to] = @ - f,
                  !.ok = @ /\ st.lists[at][st.path[at]].flow >= f
                           /\ st.flow[prev][to] >= f]

\* An elimination that leaves the cycle as it is.
EliminateCycleKeepingFlow(st, begin, f) == st

\* An elimination that stops after the first fragment of the cycle.
EliminateCycleFirstOnly(st, begin, f) == EliminateStep(st, begin, f)

\* MCF1stPass::EliminateCycle(path, cycle_begin, flow), cycle_begin = path[begin].
EliminateCycle(st, begin, f) ==
    LET cycle == CycleFrom(st, begin, begin)
        RECURSIVE Along(_, _)
        Along(s, ns) ==
            IF ns = <<>> THEN s ELSE Along(EliminateStep(s, Head(ns), f), Tail(ns))
    IN Along(st, cycle)

\* Lines 380-395: add up the fragments of one origin with the same next
\* hop in the first of them.  m: [list, hops (next hop -> index, 0: none)].
RECURSIVE Summarize(_, _, _)
Summarize(m, i, origin_id) ==
    IF i > Len(m.list) THEN m
    ELSE LET new_child == m.list[i]
             via == m.hops[new_child.node]
         IN IF new_child.origin # origin_id THEN Summarize(m, i + 1, origin_id)
            ELSE IF via = 0
            THEN Summarize([m EXCEPT !.hops[new_child.node] = i], i + 1, origin_id)
            ELSE Summarize([m EXCEPT !.list[via].flow = @ + new_child.flow,
                                      !.list[i].flow = 0],
                           i + 1, origin_id)

RECURSIVE EliminateCyclesFrom(_, _, _)
RECURSIVE SearchHops(_, _, _, _, _, _)

\* Lines 398-407: follow every next hop that carries flow.
SearchHops(st, origin_id, next_id, hops, vias, found) ==
    IF vias = <<>> THEN [st |-> st, found |-> found]
    ELSE LET child == hops[Head(vias)]
         IN IF st.lists[next_id][child].flow > 0
            THEN LET r == EliminateCyclesFrom(
                              [st EXCEPT !.path[next_id] = child], origin_id,
                              st.lists[next_id][child].node)
                 IN SearchHops(r.st, origin_id, next_id, hops, Tail(vias),
                               r.found \/ found)
            ELSE SearchHops(st, origin_id, next_id, hops, Tail(vias), found)

\* MCF1stPass::EliminateCycles(path, origin_id, next_id).
\* st: [path, lists, flow]; the result: [st, found].
EliminateCyclesFrom(st, origin_id, next_id) ==
    LET at_next_pos == st.path[next_id]
    IN IF at_next_pos = invalid_path THEN [st |-> st, found |-> FALSE]
       ELSE IF at_next_pos = NULL
       THEN LET m == Summarize([list |-> st.lists[next_id],
                                hops |-> [n \in DOMAIN st.path |-> 0]],
                               1, origin_id)
                vias == Ascending({n \in DOMAIN st.path : m.hops[n] # 0})
                r == SearchHops([st EXCEPT
                                   !.lists[next_id] = m.list,
                                   !.ok = @ /\ ListsMatchFlow(
                                       [st.lists EXCEPT ![next_id] = m.list],
                                       st.flow)],
                                origin_id, next_id, m.hops, vias, FALSE)
            IN [st |-> [r.st EXCEPT !.path[next_id] =
                           IF r.found THEN NULL ELSE invalid_path],
                found |-> r.found]
       ELSE LET f == FindCycleFlow(st, next_id)
                e == EliminateCycle(st, next_id, f)
            IN IF f > 0
               THEN [st |-> [e EXCEPT !.ok = @ /\ ListsMatchFlow(e.lists, e.flow)],
                     found |-> TRUE]
               ELSE [st |-> st, found |-> FALSE]

\* MCF1stPass::EliminateCycles(): from every node, with a cleared vector.
RECURSIVE EliminateCyclesAll(_, _, _)
EliminateCyclesAll(r, node, size) ==
    IF node = size THEN r
    ELSE LET cleared == [r.st EXCEPT !.path = [n \in DOMAIN r.st.path |-> NULL]]
             one == EliminateCyclesFrom(cleared, node, node)
         IN EliminateCyclesAll([st |-> one.st, found |-> r.found \/ one.found],
                               node + 1, size)

EliminateCycles(pl, fl, size) ==
    EliminateCyclesAll([st |-> [path |-> [n \in 0 .. (size - 1) |-> NULL],
                                lists |-> pl, flow |-> fl, ok |-> TRUE],
                        found |-> FALSE], 0, size)

\* ------------------------------------------------------------- the drivers
StartSweep ==
    /\ source_node' = 0
    /\ pc' = "dijkstra_init"

\* Line 485 with more_loops set, then line 459: the next sweep starts.
Pass1Continue ==
    /\ pc = "loop1"
    /\ more_loops
    /\ more_loops' = FALSE
    /\ StartSweep
    /\ hist' = [hist EXCEPT !.sweep_unsat = TotalUnsatisfied(job, unsatisfied)]
    /\ UNCHANGED <<job, flow, unsatisfied, pathlist, shares, pass,
                   max_saturation, dest_node, paths, annos, clock, demand_left>>

\* Line 485 with more_loops clear: EliminateCycles() decides whether the
\* pass sweeps again (line 459) or ends.
Pass1EliminateCycles ==
    /\ pc = "loop1"
    /\ ~more_loops
    /\ LET r == EliminateCycles(pathlist, flow, job.size)
       IN /\ pathlist' = r.st.lists
          /\ flow' = r.st.flow
          /\ hist' = [hist EXCEPT
                !.cycles_found = r.found,
                !.consistent = @ /\ r.st.ok,
                !.ever_cycles = @ \/ r.found,
                !.sweep_unsat = TotalUnsatisfied(job, unsatisfied)]
          /\ IF r.found
             THEN StartSweep
             ELSE /\ pc' = "map"
                  /\ source_node' = source_node
    /\ more_loops' = FALSE
    /\ UNCHANGED <<job, unsatisfied, shares, pass, max_saturation, dest_node,
                   paths, annos, clock, demand_left>>

\* Flow of origin o on the fragments that leave u for v, enter v, leave u.
FlowOn(pl, o, u, v) ==
    SumOver(DOMAIN pl[u],
            [i \in DOMAIN pl[u] |->
               IF pl[u][i].origin = o /\ pl[u][i].node = v
               THEN pl[u][i].flow ELSE 0])
Inflow(pl, o, v) == SumOver(DOMAIN pl, [u \in DOMAIN pl |-> FlowOn(pl, o, u, v)])
Outflow(pl, o, u) == SumOver(DOMAIN pl, [v \in DOMAIN pl |-> FlowOn(pl, o, u, v)])

\* The flow mapper at the end of a pass: at every node and for every origin
\* the weight of each next hop is the flow of the fragments that take it; the
\* flow that stays at the node is the share of the node itself.
FlowMapper ==
    /\ pc = "map"
    /\ shares' = [u \in Nodes(job) |-> [o \in Nodes(job) |-> [v \in Nodes(job) |->
           IF v # u THEN FlowOn(pathlist, o, u, v)
           ELSE IF u = o THEN 0
           ELSE Max(0, Inflow(pathlist, o, u) - Outflow(pathlist, o, u))]]]
    /\ pc' = IF pass = 1 THEN "start2" ELSE "done"
    /\ UNCHANGED <<job, flow, unsatisfied, pathlist, pass, max_saturation,
                   source_node, dest_node, paths, annos, clock, more_loops,
                   demand_left, hist>>

\* Lines 493-501: MCF2ndPass lifts the cap and enters its loop.
Pass2Start ==
    /\ pc = "start2"
    /\ pass' = 2
    /\ max_saturation' = UINT_MAX
    /\ demand_left' = FALSE
    /\ StartSweep
    /\ hist' = [hist EXCEPT !.sweep_unsat = TotalUnsatisfied(job, unsatisfied)]
    /\ UNCHANGED <<job, flow, unsatisfied, pathlist, shares, dest_node, paths,
                   annos, clock, more_loops>>

\* Line 500 with demand_left set, then line 501.
Pass2Continue ==
    /\ pc = "loop2"
    /\ demand_left
    /\ demand_left' = FALSE
    /\ StartSweep
    /\ hist' = [hist EXCEPT !.sweep_unsat = TotalUnsatisfied(job, unsatisfied)]
    /\ UNCHANGED <<job, flow, unsatisfied, pathlist, shares, pass,
                   max_saturation, dest_node, paths, annos, clock, more_loops>>

\* Line 500 with demand_left clear: the pass ends.
Pass2Finish ==
    /\ pc = "loop2"
    /\ ~demand_left
    /\ pc' = "map"
    /\ UNCHANGED <<job, flow, unsatisfied, pathlist, shares, pass,
                   max_saturation, source_node, dest_node, paths, annos, clock,
                   more_loops, demand_left, hist>>

\* ------------------------------------------------------------ specification
\* Lines 451-459: the job as the demand handler leaves it (no flow, all
\* demand unsatisfied), at the first sweep of MCF1stPass.
Init ==
    /\ job \in Jobs
    /\ flow = [u \in Nodes(job) |-> [v \in Nodes(job) |-> 0]]
    /\ unsatisfied = job.demand
    /\ pathlist = [u \in Nodes(job) |-> <<>>]
    /\ shares = [u \in Nodes(job) |-> [o \in Nodes(job) |-> [v \in Nodes(job) |-> 0]]]
    /\ pass = 1
    /\ pc = "dijkstra_init"
    /\ max_saturation = job.short_path_saturation
    /\ source_node = 0
    /\ dest_node = 0
    /\ paths = <<>>
    /\ annos = {}
    /\ clock = 0
    /\ more_loops = FALSE
    /\ demand_left = FALSE
    /\ hist = [pushed |-> {}, pushed2 |-> {}, consistent |-> TRUE,
               overloaded |-> {}, overloaded_twice |-> FALSE,
               overload_edges |-> {}, deleted |-> {},
               cycles_found |-> FALSE, ever_cycles |-> FALSE,
               sweep_unsat |-> TotalUnsatisfied(job, job.demand)]

Next ==
    \/ DijkstraInit
    \/ DijkstraStep
    \/ Pass1Push
    \/ Pass2Push
    \/ CleanupPaths
    \/ Pass1Continue
    \/ Pass1EliminateCycles
    \/ FlowMapper
    \/ Pass2Start
    \/ Pass2Continue
    \/ Pass2Finish

Spec == Init /\ [][Next]_vars

\* The solver runs to its end on one thread without suspension points
\* (specification, section 5): a step that can be taken is taken.  This is
\* weak fairness of Next, []<>(~ENABLED <<Next>>_vars) \/ []<><<Next>>_vars,
\* with the enabling condition written out: every step of the solver is
\* total, so Next can be taken exactly until the second flow mapper is done.
Running == pc # "done"
FairSpec == Spec /\ ([]<>(~Running) \/ []<><<Next>>_vars)

\* -------------------------------------------------------------- properties
Present(j, u, v) == j.distance[u][v] < UINT_MAX

\* The nodes some directed path of present edges leads to from the nodes S.
RECURSIVE ReachFrom(_, _)
ReachFrom(j, S) ==
    LET more == S \cup {v \in Nodes(j) : \E u \in S : Present(j, u, v)}
    IN IF more = S THEN S ELSE ReachFrom(j, more)
Reachable(j, s, d) == d \in ReachFrom(j, {s})

\* The pairs with demand that no path serves, and those some path serves.
Stranded(j) ==
    {p \in Nodes(j) \X Nodes(j) :
        j.demand[p[1]][p[2]] > 0 /\ ~Reachable(j, p[1], p[2])}
Servable(j) ==
    {p \in Nodes(j) \X Nodes(j) :
        j.demand[p[1]][p[2]] > 0 /\ Reachable(j, p[1], p[2])}

Pass1Done == pc = "map" /\ pass = 1
PassDone == pc = "map"
DijkstraFinished == pc = "push" /\ dest_node = 0

\* C1: MCF1stPass terminates: its loop reaches a sweep that ends with
\* more_loops clear and EliminateCycles() false, and every Dijkstra run on the
\* way has emptied its set when the push loop takes over.
C1_Pass1Terminates ==
    /\ [](pc \in {"push", "cleanup"} => annos = {})
    /\ <>(Pass1Done /\ ~more_loops /\ ~hist.cycles_found)
C1_Witness == Pass1Done /\ hist.ever_cycles /\ hist.pushed # {}

\* C2: no unsatisfied_demand ever grows, and a sweep of pass 1 that ends with
\* more_loops set, or of pass 2 that ends with demand_left set, ends with a
\* smaller total of unsatisfied demand than it started with.
C2_DemandMonotone ==
    [][/\ \A s \in Nodes(job) : \A d \in Nodes(job) :
            unsatisfied'[s][d] <= unsatisfied[s][d]
       /\ (pc' = "loop1" /\ more_loops')
            => TotalUnsatisfied(job, unsatisfied') < hist'.sweep_unsat
       /\ (pc' = "loop2" /\ demand_left')
            => TotalUnsatisfied(job, unsatisfied') < hist'.sweep_unsat]_vars
C2_Witness ==
    /\ pc = "loop2" /\ demand_left
    /\ TotalUnsatisfied(job, unsatisfied) < hist.sweep_unsat
    /\ hist.overloaded # {}

\* C3: after pass 1, the flow mapper and pass 2, no demand between a pair
\* that some path of present edges connects is left unsatisfied.
C3_ServableDemandSatisfied ==
    pc = "done" => \A p \in Servable(job) : unsatisfied[p[1]][p[2]] = 0
C3_Witness ==
    /\ pc = "done"
    /\ \E p \in Servable(job) : p \in hist.pushed2 /\ unsatisfied[p[1]][p[2]] = 0

\* C4: at the end of each pass the fragments of every origin O conserve
\* flow: at a node v other than O, what enters minus what leaves is the
\* demand from O to v that was assigned; at O, what leaves minus what enters
\* is all the demand assigned from O.
Assigned(o, v) == job.demand[o][v] - unsatisfied[o][v]
C4_FlowConservation ==
    PassDone =>
        \A o \in Nodes(job) :
            /\ \A v \in Nodes(job) \ {o} :
                  Inflow(pathlist, o, v) - Outflow(pathlist, o, v) = Assigned(o, v)
            /\ Outflow(pathlist, o, o) - Inflow(pathlist, o, o)
                  = SumOver(Nodes(job), [d \in Nodes(job) |-> Assigned(o, d)])
C4_Witness ==
    /\ PassDone
    /\ hist.ever_cycles
    /\ \E o \in Nodes(job) : \E v \in Nodes(job) \ {o} :
          Outflow(pathlist, o, v) > 0 /\ Assigned(o, v) > 0

\* ceil(capacity * max_saturation / 100).
CeilCap(capacity, sat) == (capacity * sat + 99) \div 100
Links(j) == {e \in Nodes(j) \X Nodes(j) : Present(j, e[1], e[2])}

\* C5 as stated: after pass 1 every edge that no one-shot overload used
\* carries at most ceil(capacity * max_saturation / 100), a capacity of 0
\* included, and no pair is overloaded twice.
C5_Original ==
    /\ ~hist.overloaded_twice
    /\ Pass1Done =>
          \A e \in Links(job) \ hist.overload_edges :
              flow[e[1]][e[2]]
                 <= CeilCap(job.capacity[e[1]][e[2]], job.short_path_saturation)

\* C5 amended: after pass 1 every edge that no one-shot overload used
\* carries at most ceil(capacity * max_saturation / 100), and at most one unit
\* when that is 0 (a capacity of 0); no pair is overloaded twice.
C5_CapacityRespected ==
    /\ ~hist.overloaded_twice
    /\ Pass1Done =>
          \A e \in Links(job) \ hist.overload_edges :
              flow[e[1]][e[2]]
                 <= Max(1, CeilCap(job.capacity[e[1]][e[2]],
                                   job.short_path_saturation))
C5_Witness ==
    /\ Pass1Done
    /\ hist.overloaded # {}
    /\ \E e \in Links(job) \ hist.overload_edges :
          /\ job.capacity[e[1]][e[2]] > 0
          /\ flow[e[1]][e[2]]
                = CeilCap(job.capacity[e[1]][e[2]], job.short_path_saturation)

\* The next hops of origin o that carry flow, parallel fragments merged.
NextHops(pl, o, u) == {v \in DOMAIN pl : FlowOn(pl, o, u, v) > 0}
RECURSIVE Downstream(_, _, _)
Downstream(pl, o, S) ==
    LET more == S \cup UNION {NextHops(pl, o, u) : u \in S}
    IN IF more = S THEN S ELSE Downstream(pl, o, more)

\* C6: when MCF1stPass returns, the next hops of no origin form a cycle.
C6_NoCyclesAfterPass1 ==
    Pass1Done =>
        \A o \in Nodes(job) : \A u \in Nodes(job) :
            u \notin Downstream(pathlist, o, NextHops(pathlist, o, u))
C6_Witness ==
    /\ Pass1Done
    /\ hist.ever_cycles
    /\ \E o \in Nodes(job) : \E u \in Nodes(job) \ {o} : NextHops(pathlist, o, u) # {}

\* Two paths s -> a -> d and s -> b -> d, a < b, of equal cost, all four
\* edges with free capacity, a and b hanging off the root, and d on one of
\* them at that cost.
Cost(u, v) == job.distance[u][v] + 1
FreeEdge(u, v) ==
    /\ Present(job, u, v)
    /\ EffectiveCapacity(job.capacity[u][v], max_saturation) - flow[u][v] > 0
TieCase(s, a, b, d) ==
    /\ a < b
    /\ Cardinality({s, a, b, d}) = 4
    /\ FreeEdge(s, a) /\ FreeEdge(a, d) /\ FreeEdge(s, b) /\ FreeEdge(b, d)
    /\ Cost(s, a) + Cost(a, d) = Cost(s, b) + Cost(b, d)
    /\ paths[d].distance = Cost(s, a) + Cost(a, d)
    /\ paths[a].parent = s /\ paths[b].parent = s
    /\ paths[d].parent \in {a, b}

\* C7 as stated: of two equal-cost paths with free capacity the distance
\* Dijkstra picks the one through the lower node, whatever the edge distances.
C7_Original ==
    (DijkstraFinished /\ pass = 1) =>
        \A a \in Nodes(job) : \A b \in Nodes(job) : \A d \in Nodes(job) :
            TieCase(source_node, a, b, d) => paths[d].parent = a

\* C7 amended: ... picks the one through the lower node a when a is not
\* farther from the source than b (the set then yields a first).
C7_TieBreak ==
    (DijkstraFinished /\ pass = 1) =>
        \A a \in Nodes(job) : \A b \in Nodes(job) : \A d \in Nodes(job) :
            (TieCase(source_node, a, b, d)
               /\ Cost(source_node, a) <= Cost(source_node, b))
            => paths[d].parent = a
C7_Witness ==
    /\ DijkstraFinished /\ pass = 1
    /\ \E a \in Nodes(job) : \E b \in Nodes(job) : \E d \in Nodes(job) :
          /\ TieCase(source_node, a, b, d)
          /\ Cost(source_node, a) <= Cost(source_node, b)
          /\ paths[d].parent = a

\* C8: a pair with demand that no path connects is left alone: the path to
\* the destination stays at free_capacity INT_MIN in every Dijkstra run from
\* the origin, PushFlow is never called for the pair, its demand stays
\* unsatisfied, nothing of the origin flows into the destination and no share
\* of the origin points at it; and both passes end.
C8_Untouched ==
    \A p \in Stranded(job) :
        LET s == p[1]
            d == p[2]
        IN /\ (pc \in {"dijkstra", "push", "cleanup"} /\ source_node = s)
                => (paths[d].free_capacity = INT_MIN /\ paths[d].flow = 0)
           /\ p \notin hist.pushed
           /\ unsatisfied[s][d] = job.demand[s][d]
           /\ \A u \in Nodes(job) :
                 FlowOn(pathlist, s, u, d) = 0 /\ shares[u][s][d] = 0
C8_UnreachableDemand == [](C8_Untouched) /\ <>(pc = "done")
C8_Witness ==
    /\ pc = "done"
    /\ Stranded(job) # {}
    /\ Servable(job) # {}

\* The path to n climbs to the root without meeting a node twice.
RECURSIVE Climbs(_, _, _, _)
Climbs(ps, root, n, seen) ==
    IF n = root THEN TRUE
    ELSE IF n \in seen \/ ps[n].parent = INVALID_NODE THEN FALSE
    ELSE Climbs(ps, root, ps[n].parent, seen \cup {n})

\* The attributes of paths[n] as Fork computes them from its parent now.
AgreesWithParent(ps, n) ==
    LET q == ps[n].parent
        cap == EffectiveCapacity(job.capacity[q][n], max_saturation)
    IN /\ ps[n].distance = ps[q].distance + Cost(q, n)
       /\ ps[n].capacity = Min(ps[q].capacity, cap)
       /\ ps[n].free_capacity = Min(ps[q].free_capacity, cap - flow[q][n])

Connected(ps, root) ==
    {n \in DOMAIN ps : n # root /\ ps[n].distance < UINT_MAX}

\* C9 as stated: after a Dijkstra run every connected path has a parent,
\* climbs to the root, and has the attributes its parent's final ones give.
C9_Original ==
    DijkstraFinished =>
        \A n \in Connected(paths, source_node) :
            /\ paths[n].parent # INVALID_NODE
            /\ Climbs(paths, source_node, n, {})
            /\ AgreesWithParent(paths, n)

\* C9 amended: ... and has the attributes its parent's final ones give
\* unless the parent was forked again after the path was attached to it.
C9_TreeOfPaths ==
    DijkstraFinished =>
        \A n \in Connected(paths, source_node) :
            /\ paths[n].parent # INVALID_NODE
            /\ Climbs(paths, source_node, n, {})
            /\ paths[paths[n].parent].stamp < paths[n].stamp
                  => AgreesWithParent(paths, n)
C9_Witness ==
    /\ DijkstraFinished
    /\ \E n \in Connected(paths, source_node) :
          /\ paths[n].parent # source_node
          /\ paths[paths[n].parent].stamp < paths[n].stamp
          /\ flow[paths[n].parent][n] > 0
          /\ AgreesWithParent(paths, n)

\* The flow of what is attached to u's path list and leads to v: the
\* fragments kept there and the path of the running Dijkstra forked onto u.
AttachedFlow(u, v) ==
    ListFlow(pathlist, u, v)
    + (IF v \in DOMAIN paths /\ paths[v].parent = u THEN paths[v].flow ELSE 0)

\* C10: every edge carries exactly the flow of the paths attached to its
\* start that lead to its end, in every state and inside EliminateCycles
\* after every merge and every EliminateCycle; no flow of an edge or a path
\* goes below 0; CleanupPaths deletes only paths without flow.
C10_EdgeFlowIsPathFlow ==
    /\ \A u \in Nodes(job) : \A v \in Nodes(job) :
          flow[u][v] = AttachedFlow(u, v) /\ flow[u][v] >= 0
    /\ \A u \in Nodes(job) : \A i \in DOMAIN pathlist[u] : pathlist[u][i].flow >= 0
    /\ hist.consistent
    /\ \A p \in hist.deleted : p.flow = 0
C10_Witness ==
    /\ hist.ever_cycles
    /\ pc = "loop1"
    /\ hist.deleted # {}
    /\ \E u \in Nodes(job) : \E v \in Nodes(job) : flow[u][v] > 0
=============================================================================
